---- MODULE Spec2Model ----
(***************************************************************************)
(* Cost-Curve-Visualizer (src/src/App.js): the CSV parser of               *)
(* handleFileUpload, the cumulative layout / statistics memo, the          *)
(* weighted-average effect, the price lookup effect and the primitives the *)
(* SVG receives, as a state machine over the component's React state.      *)
(*                                                                         *)
(* Text is a sequence of one-character strings.  A JavaScript number is a  *)
(* record [k, n, d]: k = "fin" is the rational n/d in lowest terms (d > 0),*)
(* k = "inf" / "ninf" / "nan" are Infinity, -Infinity and NaN, which follow*)
(* the IEEE-754 rules.  Finite arithmetic is exact (no rounding, no        *)
(* overflow to Infinity) and -0 is identified with 0.                      *)
(*                                                                         *)
(* Every action that sets state stands for the handler and the render it   *)
(* causes; the memos are functions of the state, so the operators below    *)
(* give what that render computed.  The colours, the hovered bar and the   *)
(* PNG download hold no value any property here reads and are left out.    *)
(***************************************************************************)
EXTENDS Integers, Sequences, FiniteSets, TLC

(***************************************************************************)
(* Numbers                                                                 *)
(***************************************************************************)
Abs(i) == IF i < 0 THEN -i ELSE i

RECURSIVE GCD(_, _)
GCD(a, b) == IF b = 0 THEN a ELSE GCD(b, a % b)

NaN == [k |-> "nan", n |-> 0, d |-> 1]
PosInf == [k |-> "inf", n |-> 0, d |-> 1]
NegInf == [k |-> "ninf", n |-> 0, d |-> 1]

Rat(n, d) ==
  LET s == IF d < 0 THEN -1 ELSE 1
      g == GCD(Abs(n), Abs(d))
  IN  [k |-> "fin", n |-> (s * n) \div g, d |-> (s * d) \div g]

Int2Num(i) == [k |-> "fin", n |-> i, d |-> 1]
Zero == Int2Num(0)

IsNaN(a) == a.k = "nan"
IsFinite(a) == a.k = "fin"

\* -1, 0 or 1; not used on NaN
Sign(a) ==
  CASE a.k = "inf" -> 1
    [] a.k = "ninf" -> -1
    [] OTHER -> IF a.n > 0 THEN 1 ELSE IF a.n < 0 THEN -1 ELSE 0

Signed(s) == IF s > 0 THEN PosInf ELSE NegInf

Neg(a) ==
  CASE a.k = "nan" -> NaN
    [] a.k = "inf" -> NegInf
    [] a.k = "ninf" -> PosInf
    [] OTHER -> [a EXCEPT !.n = -a.n]

\* a + b
Add(a, b) ==
  CASE IsNaN(a) \/ IsNaN(b) -> NaN
    [] IsFinite(a) /\ IsFinite(b) -> Rat(a.n * b.d + b.n * a.d, a.d * b.d)
    [] IsFinite(a) -> b
    [] IsFinite(b) -> a
    [] OTHER -> IF a.k = b.k THEN a ELSE NaN

\* a - b
Sub(a, b) == Add(a, Neg(b))

\* a * b
Mul(a, b) ==
  CASE IsNaN(a) \/ IsNaN(b) -> NaN
    [] IsFinite(a) /\ IsFinite(b) ->
         LET x == Rat(a.n, b.d)
             y == Rat(b.n, a.d)
         IN  Rat(x.n * y.n, x.d * y.d)
    [] OTHER -> IF Sign(a) * Sign(b) = 0 THEN NaN ELSE Signed(Sign(a) * Sign(b))

\* a / b
Div(a, b) ==
  CASE IsNaN(a) \/ IsNaN(b) -> NaN
    [] IsFinite(a) /\ IsFinite(b) ->
         IF b.n = 0
           THEN IF a.n = 0 THEN NaN ELSE Signed(Sign(a))
           ELSE Mul(a, Rat(b.d, b.n))
    [] IsFinite(a) -> Zero
    [] IsFinite(b) -> Signed(Sign(a) * (IF Sign(b) < 0 THEN -1 ELSE 1))
    [] OTHER -> NaN

\* a < b
Lt(a, b) ==
  /\ ~IsNaN(a)
  /\ ~IsNaN(b)
  /\ CASE IsFinite(a) /\ IsFinite(b) -> a.n * b.d < b.n * a.d
       [] OTHER -> Sign(Sub(a, b)) < 0 /\ a.k # b.k

\* a > b, a <= b, a >= b
Gt(a, b) == Lt(b, a)
Le(a, b) == ~IsNaN(a) /\ ~IsNaN(b) /\ ~Lt(b, a)
Ge(a, b) == Le(b, a)

\* Math.max(a, b)
MathMax(a, b) ==
  IF IsNaN(a) \/ IsNaN(b) THEN NaN ELSE IF Lt(a, b) THEN b ELSE a

FloorDiv(n, d) == IF n >= 0 THEN n \div d ELSE -((-n + d - 1) \div d)

\* Math.floor(a), Math.ceil(a)
MathFloor(a) == IF IsFinite(a) THEN Int2Num(FloorDiv(a.n, a.d)) ELSE a
MathCeil(a) == IF IsFinite(a) THEN Int2Num(-FloorDiv(-a.n, a.d)) ELSE a

\* null and undefined, where a state holds them in place of a number
Null == [k |-> "null", n |-> 0, d |-> 1]
Undefined == [k |-> "undefined", n |-> 0, d |-> 1]

\* ToBoolean: null, undefined, NaN and 0 are falsy
Truthy(a) == a.k \in {"fin", "inf", "ninf"} /\ ~(IsFinite(a) /\ a.n = 0)

\* a || 0
OrZero(a) == IF Truthy(a) THEN a ELSE Zero

(***************************************************************************)
(* Text                                                                    *)
(***************************************************************************)
QUOTE == "\""
COMMA == ","
NEWLINE == "\n"

\* \s of a regular expression, and the white space trim() and parseFloat skip
IsSpace(c) == c \in {" ", "\t", "\r", "\n", "\f"}

\* . of a regular expression: anything but a line terminator
IsDot(c) == c \notin {"\n", "\r"}

Digits == <<"0", "1", "2", "3", "4", "5", "6", "7", "8", "9">>
IsDigit(c) == \E i \in 1..10 : Digits[i] = c
DigitVal(c) == (CHOOSE i \in 1..10 : Digits[i] = c) - 1

\* text.split('\n')
\* the pieces of t from position start on, i being the position scanned
RECURSIVE SplitFrom(_, _, _)
SplitFrom(t, start, i) ==
  IF i > Len(t) THEN <<SubSeq(t, start, Len(t))>>
  ELSE IF t[i] = NEWLINE
    THEN <<SubSeq(t, start, i - 1)>> \o SplitFrom(t, i + 1, i + 1)
    ELSE SplitFrom(t, start, i + 1)

SplitLines(t) == SplitFrom(t, 1, 1)

\* s.replace(/[chars]/g, '')
RemoveChars(t, chars) == SelectSeq(t, LAMBDA c : c \notin chars)

\* s.trim()
RECURSIVE TrimStart(_)
TrimStart(t) ==
  IF t # <<>> /\ IsSpace(Head(t)) THEN TrimStart(Tail(t)) ELSE t

RECURSIVE TrimEnd(_)
TrimEnd(t) ==
  IF t # <<>> /\ IsSpace(t[Len(t)]) THEN TrimEnd(SubSeq(t, 1, Len(t) - 1)) ELSE t

Trim(t) == TrimEnd(TrimStart(t))

\* the position of the first character at or after p that is not white space
RECURSIVE SkipSpace(_, _)
SkipSpace(t, p) ==
  IF p <= Len(t) /\ IsSpace(t[p]) THEN SkipSpace(t, p + 1) ELSE p

\* (?=\s*,|\s*$) at position p
Lookahead(t, p) ==
  LET q == SkipSpace(t, p) IN q > Len(t) \/ t[q] = COMMA

\* .*?" from position e on, lazily: the first e with a quote at e and the
\* lookahead behind it, every character passed over being matched by . ;
\* 0 when there is none
RECURSIVE LazyQuoteEnd(_, _)
LazyQuoteEnd(t, e) ==
  IF e > Len(t) THEN 0
  ELSE IF t[e] = QUOTE /\ Lookahead(t, e + 1) THEN e
  ELSE IF IsDot(t[e]) THEN LazyQuoteEnd(t, e + 1)
  ELSE 0

\* ".*?" at s followed by the lookahead: the end of the shortest match, or 0
QuotedEnd(t, s) == IF t[s] # QUOTE THEN 0 ELSE LazyQuoteEnd(t, s + 1)

\* the end of the longest run of [^",] that starts at s (s - 1 when empty)
RECURSIVE RunEnd(_, _)
RunEnd(t, s) ==
  IF s <= Len(t) /\ t[s] \notin {QUOTE, COMMA} THEN RunEnd(t, s + 1) ELSE s - 1

\* [^",]+ ending at e or, giving characters back, before e, down to s, with
\* the lookahead behind it: the end of the match, or 0
RECURSIVE GreedyEnd(_, _, _)
GreedyEnd(t, s, e) ==
  IF e < s THEN 0
  ELSE IF Lookahead(t, e + 1) THEN e
  ELSE GreedyEnd(t, s, e - 1)

\* [^",]+ at s followed by the lookahead: the end of the longest match, or 0
BareEnd(t, s) == GreedyEnd(t, s, RunEnd(t, s))

\* (".*?"|[^",]+)(?=\s*,|\s*$) at s: the end of the match, or 0
MatchAt(t, s) ==
  LET quoted == QuotedEnd(t, s)
  IN  IF quoted # 0 THEN quoted ELSE BareEnd(t, s)

\* row.match(/.../g): every match from position i on, left to right
RECURSIVE MatchAll(_, _)
MatchAll(t, i) ==
  IF i > Len(t) THEN <<>>
  ELSE LET e == MatchAt(t, i)
       IN  IF e = 0 THEN MatchAll(t, i + 1)
           ELSE <<SubSeq(t, i, e)>> \o MatchAll(t, e + 1)

\* row.match(...) is null when nothing matches; null is the empty sequence
\* here (an array of matches is never empty)
RowMatch(row) == MatchAll(row, 1)

\* the value of the longest prefix of t made of digits, as <<value, length>>
RECURSIVE DigitRun(_, _, _)
DigitRun(t, acc, len) ==
  IF t # <<>> /\ IsDigit(Head(t))
    THEN DigitRun(Tail(t), acc * 10 + DigitVal(Head(t)), len + 1)
    ELSE <<acc, len>>

RECURSIVE Pow10(_)
Pow10(e) == IF e = 0 THEN 1 ELSE 10 * Pow10(e - 1)

INFINITY == <<"I", "n", "f", "i", "n", "i", "t", "y">>

HasPrefix(t, p) == Len(t) >= Len(p) /\ SubSeq(t, 1, Len(p)) = p

\* parseFloat(t): leading white space, a sign, then Infinity or the longest
\* decimal literal digits[.digits]; NaN when there is none.  Exponent
\* notation is not modelled.
ParseFloat(t) ==
  LET u == TrimStart(t)
      neg == u # <<>> /\ Head(u) = "-"
      v == IF u # <<>> /\ Head(u) \in {"-", "+"} THEN Tail(u) ELSE u
      ip == DigitRun(v, 0, 0)
      w == SubSeq(v, ip[2] + 1, Len(v))
      fp == IF w # <<>> /\ Head(w) = "." THEN DigitRun(Tail(w), 0, 0) ELSE <<0, 0>>
      mag == IF HasPrefix(v, INFINITY) THEN PosInf
             ELSE IF ip[2] + fp[2] = 0 THEN NaN
             ELSE Rat(ip[1] * Pow10(fp[2]) + fp[1], Pow10(fp[2]))
  IN  IF neg THEN Neg(mag) ELSE mag

(***************************************************************************)
(* Array.prototype.sort(compare): stable; a NaN from compare counts as 0.  *)
(***************************************************************************)
\* compare[i, j] is the result of compare(arr[i], arr[j]).  The element at
\* i goes behind every element that compares less than it, and behind the
\* earlier elements that compare equal to it.
ArraySort(arr, compare) ==
  LET Before(j, i) ==
        \/ Lt(compare[j, i], Zero)
        \/ ~Gt(compare[j, i], Zero) /\ j < i
      Rank(i) == Cardinality({j \in 1..Len(arr) : Before(j, i)}) + 1
  IN  [r \in 1..Len(arr) |-> arr[CHOOSE i \in 1..Len(arr) : Rank(i) = r]]

(***************************************************************************)
(* The parser: reader.onload of handleFileUpload                           *)
(***************************************************************************)
\* text.split('\n').map(row => row.match(...))
SplitRows(text) ==
  LET lines == SplitLines(text)
  IN  [i \in 1..Len(lines) |-> RowMatch(lines[i])]

\* row => row && row.length >= 4
RowFilter(row) == row # <<>> /\ Len(row) >= 4

\* (row, index) => ({name, production, cost, highlight, id})
MapRow(row, index) ==
  [name |-> Trim(RemoveChars(row[1], {QUOTE})),
   production |-> OrZero(ParseFloat(RemoveChars(row[2], {QUOTE, COMMA}))),
   cost |-> OrZero(ParseFloat(row[3])),
   highlight |-> Trim(row[4]) = <<"1">>,
   id |-> index]

\* faulty variant: a production of 0 passes
ItemFilterAllowsZero(item) == Ge(item.production, Zero) /\ Gt(item.cost, Zero)

\* item => item.production > 0 && item.cost > 0
ItemFilter(item) == Gt(item.production, Zero) /\ Gt(item.cost, Zero)

\* (a, b) => a.cost - b.cost
CostCompare(a, b) == Sub(a.cost, b.cost)

\* faulty variant: the sort is left out
SortByCostOmitted(parsedData) == parsedData

\* parsedData.sort((a, b) => a.cost - b.cost)
SortByCost(parsedData) ==
  ArraySort(parsedData,
            [i \in 1..Len(parsedData), j \in 1..Len(parsedData) |->
               CostCompare(parsedData[i], parsedData[j])])

\* rows.slice(1).filter(...).map(...).filter(...)
ParsedData(rows) ==
  LET kept == SelectSeq(Tail(rows), RowFilter)
      mapped == [i \in 1..Len(kept) |-> MapRow(kept[i], i - 1)]
  IN  SelectSeq(mapped, ItemFilter)

\* the argument of setData: the record list the text gives
ParseCsv(text) == SortByCost(ParsedData(SplitRows(text)))

Min(a, b) == IF a < b THEN a ELSE b

\* the parts of debugText: text.substring(0, 500), rows.length,
\* parsedData.length, rows.length - 1 - parsedData.length
DebugText(text, rows, parsedData) ==
  [raw |-> SubSeq(text, 1, Min(Len(text), 500)),
   totalRows |-> Len(rows),
   parsedPoints |-> Len(parsedData),
   filteredOut |-> Len(rows) - 1 - Len(parsedData)]

\* useState(''): no report yet (a report has totalRows >= 1)
NoDebugInfo == [raw |-> <<>>, totalRows |-> 0, parsedPoints |-> 0, filteredOut |-> 0]

(***************************************************************************)
(* The layout memo: cumulativeData, maxCost, totalProduction, quartiles    *)
(***************************************************************************)
\* data.map(item => { result = {...item, cumulativeProduction: cumulative};
\*                    cumulative += item.production; ... })
RECURSIVE CumulativeFrom(_, _)
CumulativeFrom(items, cumulative) ==
  IF items = <<>> THEN <<>>
  ELSE <<[name |-> Head(items).name,
          production |-> Head(items).production,
          cost |-> Head(items).cost,
          highlight |-> Head(items).highlight,
          id |-> Head(items).id,
          cumulativeProduction |-> cumulative]>>
       \o CumulativeFrom(Tail(items), Add(cumulative, Head(items).production))

\* faulty variant: cumulative is advanced before the record is emitted
CumulativeDataInclusive(d) ==
  CumulativeFrom(d, IF d = <<>> THEN Zero ELSE Head(d).production)

CumulativeData(d) == CumulativeFrom(d, Zero)

\* cumulative after the map: let cumulative = 0; cumulative += item.production
RECURSIVE SumProduction(_, _)
SumProduction(items, cumulative) ==
  IF items = <<>> THEN cumulative
  ELSE SumProduction(Tail(items), Add(cumulative, Head(items).production))

TotalProduction(d) == SumProduction(d, Zero)

\* let maxCost = 0; maxCost = Math.max(maxCost, item.cost)
RECURSIVE MaxCostFrom(_, _)
MaxCostFrom(items, maxCost) ==
  IF items = <<>> THEN maxCost
  ELSE MaxCostFrom(Tail(items), MathMax(maxCost, Head(items).cost))

MaxCost(d) == MaxCostFrom(d, Zero)

\* (a, b) => a - b
NumCompare(a, b) == Sub(a, b)

\* cumulativeData.map(item => item.cost).sort((a, b) => a - b)
SortedCosts(d) ==
  LET costs == [i \in 1..Len(d) |-> d[i].cost]
  IN  ArraySort(costs, [i \in 1..Len(d), j \in 1..Len(d) |-> NumCompare(costs[i], costs[j])])

\* faulty variant: Math.ceil in place of Math.floor
QuartileIndexCeil(len, num) == MathCeil(Mul(Int2Num(len), Rat(num, 4))).n

\* Math.floor(len * p) for p = num/4 (0.25, 0.5, 0.75 are exact in binary)
QuartileIndex(len, num) == MathFloor(Mul(Int2Num(len), Rat(num, 4))).n

\* sortedCosts[Math.floor(len * p)] || 0 (an index out of range is undefined)
QuartileValue(d, num) ==
  LET sortedCosts == SortedCosts(d)
      i == QuartileIndex(Len(sortedCosts), num)
  IN  IF i + 1 \in 1..Len(sortedCosts) THEN OrZero(sortedCosts[i + 1]) ELSE Zero

Quartiles(d) ==
  [q1 |-> QuartileValue(d, 1), median |-> QuartileValue(d, 2), q3 |-> QuartileValue(d, 3)]

(***************************************************************************)
(* The weighted average effect                                             *)
(***************************************************************************)
\* data.reduce((sum, item) => sum + item.cost * item.production, 0)
RECURSIVE WeightedSum(_, _)
WeightedSum(items, sum) ==
  IF items = <<>> THEN sum
  ELSE WeightedSum(Tail(items), Add(sum, Mul(Head(items).cost, Head(items).production)))

\* weightedSum / totalProduction
AverageCost(d) == Div(WeightedSum(d, Zero), SumProduction(d, Zero))

(***************************************************************************)
(* The chart: what the render hands to the SVG                             *)
(***************************************************************************)
SVG_WIDTH == 1200
SVG_HEIGHT == 600
MARGIN == [top |-> 40, right |-> 30, left |-> 80, bottom |-> 80]

chartWidth == SVG_WIDTH - MARGIN.left - MARGIN.right
chartHeight == SVG_HEIGHT - MARGIN.top - MARGIN.bottom

tickInterval == 10000

\* (fraction) * chartWidth + MARGIN.left
XCoord(fraction) == Add(Mul(fraction, Int2Num(chartWidth)), Int2Num(MARGIN.left))

\* SVG_HEIGHT - MARGIN.bottom - (fraction) * chartHeight
YCoord(fraction) ==
  Sub(Int2Num(SVG_HEIGHT - MARGIN.bottom), Mul(fraction, Int2Num(chartHeight)))

\* getBars: one rect for each item of cumulativeData
GetBars(d) ==
  LET cumulativeData == CumulativeData(d)
      totalProduction == TotalProduction(d)
      maxCost == MaxCost(d)
      barPadding == Int2Num(1)
  IN  [i \in 1..Len(cumulativeData) |->
        LET item == cumulativeData[i]
        IN  [id |-> item.id,
             x |-> XCoord(Div(item.cumulativeProduction, totalProduction)),
             width |-> MathMax(Sub(Mul(Div(item.production, totalProduction),
                                       Int2Num(chartWidth)), barPadding),
                               Int2Num(1)),
             y |-> YCoord(Div(item.cost, maxCost)),
             height |-> Mul(Div(item.cost, maxCost), Int2Num(chartHeight)),
             highlight |-> item.highlight]]

\* highlightedLabels: the two texts of each highlighted item
HighlightedLabels(d) ==
  LET highlighted == SelectSeq(CumulativeData(d), LAMBDA item : item.highlight)
  IN  [i \in 1..Len(highlighted) |->
        [name |-> highlighted[i].name,
         x |-> XCoord(Div(highlighted[i].cumulativeProduction, TotalProduction(d))),
         y |-> Sub(YCoord(Div(highlighted[i].cost, MaxCost(d))), Int2Num(10))]]

\* yAxisTicks: null (nothing) when the lines are off, else tickCount + 1
\* lines.  Read only for a finite maxCost (see RenderFails).
YAxisTicks(show, d) ==
  IF ~show THEN <<>>
  ELSE LET maxCost == MaxCost(d)
           tickCount == MathCeil(Div(maxCost, Int2Num(500))).n
       IN  [i \in 1..(tickCount + 1) |->
             [value |-> 500 * (i - 1),
              y |-> YCoord(Div(Int2Num(500 * (i - 1)), maxCost))]]

\* xAxisTicks: for (i = 0; i <= maxTick; i += tickInterval).  Read only for
\* a finite totalProduction (see RenderFails).
XAxisTicks(show, d) ==
  IF ~show THEN <<>>
  ELSE LET totalProduction == TotalProduction(d)
           maxTick == Mul(MathFloor(Div(totalProduction, Int2Num(tickInterval))),
                          Int2Num(tickInterval)).n
       IN  [j \in 1..(maxTick \div tickInterval + 1) |->
             [value |-> tickInterval * (j - 1),
              x |-> XCoord(Div(Int2Num(tickInterval * (j - 1)), totalProduction))]]

\* cumulativeData.find(item => item.cost >= value): its index, 0 for undefined
FindFirst(cumulativeData, value) ==
  LET hits == {i \in 1..Len(cumulativeData) : Ge(cumulativeData[i].cost, value)}
  IN  IF hits = {} THEN 0 ELSE CHOOSE i \in hits : \A j \in hits : i <= j

\* cumulativeData.find(...)?.cumulativeProduction, as the number the
\* division makes of it (undefined becomes NaN)
FoundProduction(cumulativeData, value) ==
  IF FindFirst(cumulativeData, value) = 0 THEN NaN
  ELSE cumulativeData[FindFirst(cumulativeData, value)].cumulativeProduction

\* one entry of Object.entries(quartiles).map(([key, value]) => <g>...)
QuartileLine(d, key, value) ==
  [key |-> key,
   value |-> value,
   x |-> XCoord(Div(FoundProduction(CumulativeData(d), value), TotalProduction(d)))]

\* quartileLines: null when the quartiles are off, else one group per entry
QuartileLines(show, d) ==
  IF ~show THEN <<>>
  ELSE <<QuartileLine(d, "q1", Quartiles(d).q1),
         QuartileLine(d, "median", Quartiles(d).median),
         QuartileLine(d, "q3", Quartiles(d).q3)>>

\* {showWeightedAverage && weightedAverageCost > 0 && (<g>...)}
WeightedAverageLine(show, average, d) ==
  IF show /\ Gt(average, Zero)
    THEN <<[value |-> average, y |-> YCoord(Div(average, MaxCost(d)))]>>
    ELSE <<>>

\* {showGoldPrice && goldPrice && (<g>...)}
GoldPriceLine(show, price, d) ==
  IF show /\ Truthy(price)
    THEN <<[value |-> price, y |-> YCoord(Div(price, MaxCost(d)))]>>
    ELSE <<>>

\* A render that does not complete: Array.from({length: Infinity}) throws a
\* RangeError in yAxisTicks, and the loop of xAxisTicks never ends when
\* maxTick is Infinity.
RenderFails(showH, showX, d) ==
  \/ showH /\ ~IsFinite(MaxCost(d))
  \/ showX /\ ~IsFinite(TotalProduction(d))

(***************************************************************************)
(* Input files.  Each row below is one line of a CSV file.                 *)
(***************************************************************************)
MaxRows == 3
MaxSelections == 2

Header ==
  <<"n", ",", "p", ",", "c", ",", "h">>

\* A,100,10,0
RowA ==
  <<"A", ",", "1", "0", "0", ",", "1", "0", ",", "0">>

\* B,200,20,1
RowB ==
  <<"B", ",", "2", "0", "0", ",", "2", "0", ",", "1">>

\* C,50,5,0
RowC ==
  <<"C", ",", "5", "0", ",", "5", ",", "0">>

\* D,70,7
RowShort ==
  <<"D", ",", "7", "0", ",", "7">>

\* E,0,9,1
RowZero ==
  <<"E", ",", "0", ",", "9", ",", "1">>

\* H,40,-8,0
RowNegative ==
  <<"H", ",", "4", "0", ",", "-", "8", ",", "0">>

\* F,30,10,1
RowTie ==
  <<"F", ",", "3", "0", ",", "1", "0", ",", "1">>

\* "Big, Inc","12,000",600,1\r
RowBig ==
  <<"\"", "B", "i", "g", ",", " ", "I", "n", "c", "\"", ",", "\"", "1", "2", ",", "0", "0", "0", "\"", ",", "6", "0", "0", ",", "1", "\r">>

\* G,Infinity,15,0
RowInfinity ==
  <<"G", ",", "I", "n", "f", "i", "n", "i", "t", "y", ",", "1", "5", ",", "0">>

\* A file is the sequence of the names of its lines; reading it gives each
\* line followed by "\n".
LineText(line) ==
  CASE line = "Header" -> Header
    [] line = "RowA" -> RowA
    [] line = "RowB" -> RowB
    [] line = "RowC" -> RowC
    [] line = "RowShort" -> RowShort
    [] line = "RowZero" -> RowZero
    [] line = "RowNegative" -> RowNegative
    [] line = "RowTie" -> RowTie
    [] line = "RowBig" -> RowBig
    [] line = "RowInfinity" -> RowInfinity

SampleRows ==
  {"RowA", "RowB", "RowC", "RowShort", "RowZero", "RowNegative", "RowTie",
   "RowBig", "RowInfinity"}

RECURSIVE JoinLines(_)
JoinLines(lines) ==
  IF lines = <<>> THEN <<>>
  ELSE LineText(Head(lines)) \o <<NEWLINE>> \o JoinLines(Tail(lines))

\* e.target.result of reader.readAsText(file)
FileText(file) == JoinLines(file)

CsvFile(rows) == <<"Header">> \o rows

\* every file of a header and at most MaxRows sample rows
AllFiles ==
  {CsvFile(rows) : rows \in UNION {[1..n -> SampleRows] : n \in 0..MaxRows}}

ExampleFile == CsvFile(<<"RowA", "RowB", "RowC">>)
NoValidRowsFile == CsvFile(<<"RowShort", "RowZero">>)
TiesFile == CsvFile(<<"RowBig", "RowA", "RowTie">>)
InfinityFile == CsvFile(<<"RowA", "RowInfinity">>)

\* the files the user picks from in the application runs
AppFiles == {NoValidRowsFile, TiesFile, InfinityFile}

(***************************************************************************)
(* The component                                                           *)
(***************************************************************************)
VARIABLES
  data,                 \* useState([])
  debugInfo,            \* useState('')
  weightedAverageCost,  \* useState(0)
  goldPrice,            \* useState(null)
  showHorizontalLines,  \* useState(true)
  showQuartiles,        \* useState(false)
  showWeightedAverage,  \* useState(true)
  showGoldPrice,        \* useState(true)
  showXAxisTickers,     \* useState(true)
  averageEffectPending, \* the effect on [data] is scheduled and has not run
  fetchState,           \* "idle", "pending", "ok", "noprice" or "failed"
  fetchCount,           \* the number of requests issued
  readers,              \* the FileReaders reading a file, onload not yet run
  selections,           \* the number of change events of the file input
  lastFile,             \* event.target.files[0] of the last change event
  crashed,              \* a render did not complete
  files                 \* the files the user can pick

vars ==
  <<data, debugInfo, weightedAverageCost, goldPrice, showHorizontalLines,
    showQuartiles, showWeightedAverage, showGoldPrice, showXAxisTickers,
    averageEffectPending, fetchState, fetchCount, readers, selections,
    lastFile, crashed, files>>

toggles ==
  <<showHorizontalLines, showQuartiles, showWeightedAverage, showGoldPrice,
    showXAxisTickers>>

\* the prices a successful lookup returns
GoldPrices == {Int2Num(2000)}

\* the state after the first render, before its effects have run
InitComponent ==
  /\ data = <<>>
  /\ debugInfo = NoDebugInfo
  /\ weightedAverageCost = Zero
  /\ goldPrice = Null
  /\ showHorizontalLines = TRUE
  /\ showQuartiles = FALSE
  /\ showWeightedAverage = TRUE
  /\ showGoldPrice = TRUE
  /\ showXAxisTickers = TRUE
  /\ averageEffectPending = TRUE
  /\ fetchState = "idle"
  /\ fetchCount = 0
  /\ readers = {}
  /\ selections = 0
  /\ lastFile = <<>>
  /\ crashed = FALSE

Init == InitComponent /\ files = AppFiles

\* React runs the effects of a commit before it renders the next update, so
\* a handler that sets state finds no effect pending.
EffectsFlushed == ~averageEffectPending /\ fetchState # "idle"

\* useEffect(() => { ...; setWeightedAverageCost(averageCost) }, [data])
AverageCostEffect ==
  /\ ~crashed
  /\ averageEffectPending
  /\ weightedAverageCost' = AverageCost(data)
  /\ averageEffectPending' = FALSE
  /\ UNCHANGED <<data, debugInfo, goldPrice, toggles, fetchState, fetchCount,
                 readers, selections, lastFile, crashed, files>>

\* useEffect(() => { fetchGoldPrice() }, []): the request is sent
FetchGoldPriceEffect ==
  /\ ~crashed
  /\ fetchState = "idle"
  /\ fetchState' = "pending"
  /\ fetchCount' = fetchCount + 1
  /\ UNCHANGED <<data, debugInfo, weightedAverageCost, goldPrice, toggles,
                 averageEffectPending, readers, selections, lastFile, crashed,
                 files>>

\* await fetch(...); await response.json(); setGoldPrice(data.rates.USD)
FetchResolved(price) ==
  /\ ~crashed
  /\ EffectsFlushed
  /\ fetchState = "pending"
  /\ goldPrice' = price
  /\ fetchState' = IF price = Undefined THEN "noprice" ELSE "ok"
  /\ UNCHANGED <<data, debugInfo, weightedAverageCost, toggles,
                 averageEffectPending, fetchCount, readers, selections,
                 lastFile, crashed, files>>

\* faulty variant: a failed lookup is sent again
FetchFailedRetry ==
  /\ ~crashed
  /\ fetchState = "pending"
  /\ fetchState' = "pending"
  /\ fetchCount' = fetchCount + 1
  /\ UNCHANGED <<data, debugInfo, weightedAverageCost, goldPrice, toggles,
                 averageEffectPending, readers, selections, lastFile, crashed,
                 files>>

\* catch (error) { console.error(...) }: fetch rejects, the body is not
\* JSON, or data.rates is missing
FetchFailed ==
  /\ ~crashed
  /\ fetchState = "pending"
  /\ fetchState' = "failed"
  /\ UNCHANGED <<data, debugInfo, weightedAverageCost, goldPrice, toggles,
                 averageEffectPending, fetchCount, readers, selections,
                 lastFile, crashed, files>>

\* handleFileUpload: a FileReader is created and readAsText(file) starts
FileSelected(file) ==
  /\ ~crashed
  /\ selections < MaxSelections
  /\ file \in files
  /\ readers' = readers \cup {[n |-> selections + 1, file |-> file]}
  /\ selections' = selections + 1
  /\ lastFile' = file
  /\ UNCHANGED <<data, debugInfo, weightedAverageCost, goldPrice, toggles,
                 averageEffectPending, fetchState, fetchCount, crashed, files>>

\* reader.onload: setDebugInfo(debugText); setData(parsedData.sort(...)),
\* and the render of the new data
ReaderLoaded(reader) ==
  /\ ~crashed
  /\ EffectsFlushed
  /\ reader \in readers
  /\ readers' = readers \ {reader}
  /\ LET text == FileText(reader.file)
         rows == SplitRows(text)
         parsedData == ParsedData(rows)
     IN  /\ debugInfo' = DebugText(text, rows, parsedData)
         /\ data' = SortByCost(parsedData)
  /\ averageEffectPending' = TRUE
  /\ crashed' = RenderFails(showHorizontalLines, showXAxisTickers, data')
  /\ UNCHANGED <<weightedAverageCost, goldPrice, toggles, fetchState,
                 fetchCount, selections, lastFile, files>>

\* onChange={(e) => setShowHorizontalLines(e.target.checked)}
ToggleHorizontalLines ==
  /\ ~crashed
  /\ EffectsFlushed
  /\ showHorizontalLines' = ~showHorizontalLines
  /\ crashed' = RenderFails(showHorizontalLines', showXAxisTickers, data)
  /\ UNCHANGED <<data, debugInfo, weightedAverageCost, goldPrice,
                 showQuartiles, showWeightedAverage, showGoldPrice,
                 showXAxisTickers, averageEffectPending, fetchState,
                 fetchCount, readers, selections, lastFile, files>>

\* onChange={(e) => setShowXAxisTickers(e.target.checked)}
ToggleXAxisTickers ==
  /\ ~crashed
  /\ EffectsFlushed
  /\ showXAxisTickers' = ~showXAxisTickers
  /\ crashed' = RenderFails(showHorizontalLines, showXAxisTickers', data)
  /\ UNCHANGED <<data, debugInfo, weightedAverageCost, goldPrice,
                 showHorizontalLines, showQuartiles, showWeightedAverage,
                 showGoldPrice, averageEffectPending, fetchState, fetchCount,
                 readers, selections, lastFile, files>>

\* onChange={(e) => setShowQuartiles(e.target.checked)}
ToggleQuartiles ==
  /\ ~crashed
  /\ EffectsFlushed
  /\ showQuartiles' = ~showQuartiles
  /\ UNCHANGED <<data, debugInfo, weightedAverageCost, goldPrice,
                 showHorizontalLines, showWeightedAverage, showGoldPrice,
                 showXAxisTickers, averageEffectPending, fetchState,
                 fetchCount, readers, selections, lastFile, crashed, files>>

\* onChange={(e) => setShowWeightedAverage(e.target.checked)}
ToggleWeightedAverage ==
  /\ ~crashed
  /\ EffectsFlushed
  /\ showWeightedAverage' = ~showWeightedAverage
  /\ UNCHANGED <<data, debugInfo, weightedAverageCost, goldPrice,
                 showHorizontalLines, showQuartiles, showGoldPrice,
                 showXAxisTickers, averageEffectPending, fetchState,
                 fetchCount, readers, selections, lastFile, crashed, files>>

\* onChange={(e) => setShowGoldPrice(e.target.checked)}
ToggleGoldPrice ==
  /\ ~crashed
  /\ EffectsFlushed
  /\ showGoldPrice' = ~showGoldPrice
  /\ UNCHANGED <<data, debugInfo, weightedAverageCost, goldPrice,
                 showHorizontalLines, showQuartiles, showWeightedAverage,
                 showXAxisTickers, averageEffectPending, fetchState,
                 fetchCount, readers, selections, lastFile, crashed, files>>

Next ==
  \/ AverageCostEffect
  \/ FetchGoldPriceEffect
  \/ \E price \in GoldPrices \cup {Undefined} : FetchResolved(price)
  \/ FetchFailed
  \/ \E file \in files : FileSelected(file)
  \/ \E reader \in readers : ReaderLoaded(reader)
  \/ ToggleHorizontalLines
  \/ ToggleXAxisTickers
  \/ ToggleQuartiles
  \/ ToggleWeightedAverage
  \/ ToggleGoldPrice

Spec == Init /\ [][Next]_vars

\* The parser and the layout on every file of at most MaxRows sample rows:
\* one file is on offer and is selected once, the toggles keep their
\* initial values.
InitLoad == InitComponent /\ files \in {{file} : file \in AllFiles}

NextLoad ==
  \/ AverageCostEffect
  \/ FetchGoldPriceEffect
  \/ selections = 0 /\ \E file \in files : FileSelected(file)
  \/ \E reader \in readers : ReaderLoaded(reader)

SpecLoad == InitLoad /\ [][NextLoad]_vars

\* what the last completed render gave the SVG
Chart ==
  [bars |-> GetBars(data),
   highlightedLabels |-> HighlightedLabels(data),
   xAxisTicks |-> XAxisTicks(showXAxisTickers, data),
   yAxisTicks |-> YAxisTicks(showHorizontalLines, data),
   quartileLines |-> QuartileLines(showQuartiles, data),
   weightedAverageLine |->
     WeightedAverageLine(showWeightedAverage, weightedAverageCost, data),
   goldPriceLine |-> GoldPriceLine(showGoldPrice, goldPrice, data)]

(***************************************************************************)
(* Properties                                                              *)
(***************************************************************************)
\* the text of the file whose load the state shows (every sample file is
\* shorter than the 500 characters debugInfo keeps)
LoadedText == debugInfo.raw
Loaded == debugInfo # NoDebugInfo

Costs(d) == {d[i].cost : i \in 1..Len(d)}

\* C1: in every reachable state the record list is sorted non-decreasing by
\* cost: cost[i] <= cost[i+1] for every pair of adjacent records.
C1_SortedByCost ==
  \A i \in 1..(Len(data) - 1) : Le(data[i].cost, data[i + 1].cost)

\* a file whose rows are not in cost order (costs 600, 10, 10) has been
\* loaded
C1_Witness ==
  /\ Loaded
  /\ LoadedText = FileText(TiesFile)
  /\ Len(data) = 3

\* C2: a file load yields exactly one record for each data row (line after
\* the header) that splits into at least 4 fields and whose mapped
\* production and mapped cost are both > 0, and no other record: the list
\* has as many records as there are such rows, and every record has
\* production > 0 and cost > 0.  A row of fewer than 4 fields gives none.
C2_OneRecordPerValidRow ==
  LET lines == SplitLines(LoadedText)
      fields == [i \in 1..Len(lines) |-> RowMatch(lines[i])]
      dataRows == 2..Len(lines)
      fourFields == {i \in dataRows : Len(fields[i]) >= 4}
      \* the record map() makes of row i: its index is the number of
      \* four-field rows before it
      record == [i \in fourFields |->
                   MapRow(fields[i], Cardinality({j \in fourFields : j < i}))]
      valid == {i \in fourFields :
                  Gt(record[i].production, Zero) /\ Gt(record[i].cost, Zero)}
  IN  Loaded =>
        /\ Len(data) = Cardinality(valid)
        /\ \A i \in valid :
             Cardinality({k \in 1..Len(data) : data[k] = record[i]}) = 1
        /\ \A k \in 1..Len(data) :
             Gt(data[k].production, Zero) /\ Gt(data[k].cost, Zero)

\* a load of a short row, a valid row and a row with production 0
C2_Witness ==
  /\ Loaded
  /\ LoadedText = FileText(CsvFile(<<"RowShort", "RowA", "RowZero">>))
  /\ Len(data) = 1

\* the sum of production over the records before the one at i
RECURSIVE C3_ProductionBefore(_, _)
C3_ProductionBefore(d, i) ==
  IF i = 1 THEN Zero
  ELSE Add(C3_ProductionBefore(d, i - 1), d[i - 1].production)

\* C3: the first record has cumulativeProduction 0; each record's
\* cumulativeProduction is the sum of production over the records before it
\* in cost order, so the values are non-decreasing; the last record's
\* cumulativeProduction + production is totalProduction; maxCost is the
\* maximum cost of the list.  Rows A(100,10), B(200,20), C(50,5) give the
\* order C, A, B, cumulativeProduction 0, 50, 150, totalProduction 350 and
\* maxCost 20.
C3_CumulativeLayout ==
  LET cum == CumulativeData(data)
      n == Len(data)
  IN  /\ Len(cum) = n
      /\ \A i \in 1..n :
           /\ cum[i].id = data[i].id
           /\ cum[i].production = data[i].production
           /\ cum[i].cost = data[i].cost
           /\ cum[i].cumulativeProduction = C3_ProductionBefore(data, i)
      /\ n > 0 => cum[1].cumulativeProduction = Zero
      /\ \A i \in 1..(n - 1) :
           Le(cum[i].cumulativeProduction, cum[i + 1].cumulativeProduction)
      /\ n > 0 =>
           Add(cum[n].cumulativeProduction, cum[n].production) = TotalProduction(data)
      /\ \A i \in 1..n : Le(data[i].cost, MaxCost(data))
      /\ n > 0 => MaxCost(data) \in Costs(data)
      /\ (Loaded /\ LoadedText = FileText(ExampleFile)) =>
           /\ [i \in 1..n |-> cum[i].name] = << <<"C">>, <<"A">>, <<"B">> >>
           /\ [i \in 1..n |-> cum[i].cumulativeProduction]
                = <<Zero, Int2Num(50), Int2Num(150)>>
           /\ TotalProduction(data) = Int2Num(350)
           /\ MaxCost(data) = Int2Num(20)

\* the rows A, B, C of the example have been loaded
C3_Witness ==
  /\ Loaded
  /\ LoadedText = FileText(ExampleFile)
  /\ Len(CumulativeData(data)) = 3

\* C4: for a non-empty record list q1 <= median <= q3, and each of the
\* three values is the cost of some record of the list.
C4_QuartileOrder ==
  LET quartiles == Quartiles(data)
  IN  data # <<>> =>
        /\ Le(quartiles.q1, quartiles.median)
        /\ Le(quartiles.median, quartiles.q3)
        /\ quartiles.q1 \in Costs(data)
        /\ quartiles.median \in Costs(data)
        /\ quartiles.q3 \in Costs(data)

\* a list whose three quartile values differ
C4_Witness ==
  /\ Len(data) >= 3
  /\ Lt(Quartiles(data).q1, Quartiles(data).median)
  /\ Lt(Quartiles(data).median, Quartiles(data).q3)

\* C5: for a non-empty record list the weighted average cost the effect
\* computed after the load lies between the minimum and the maximum cost of
\* the list, inclusive.
C5_AverageWithinCosts ==
  (data # <<>> /\ ~averageEffectPending) =>
    /\ \E i \in 1..Len(data) : Le(data[i].cost, weightedAverageCost)
    /\ \E i \in 1..Len(data) : Le(weightedAverageCost, data[i].cost)

\* every coordinate of the chart
ChartCoordinates ==
  LET c == Chart
  IN  UNION {
        {c.bars[i].x : i \in 1..Len(c.bars)},
        {c.bars[i].y : i \in 1..Len(c.bars)},
        {c.bars[i].width : i \in 1..Len(c.bars)},
        {c.bars[i].height : i \in 1..Len(c.bars)},
        {c.xAxisTicks[i].x : i \in 1..Len(c.xAxisTicks)},
        {c.yAxisTicks[i].y : i \in 1..Len(c.yAxisTicks)},
        {c.quartileLines[i].x : i \in 1..Len(c.quartileLines)},
        {c.weightedAverageLine[i].y : i \in 1..Len(c.weightedAverageLine)},
        {c.goldPriceLine[i].y : i \in 1..Len(c.goldPriceLine)}}

\* C6: with zero records (startup, or a file with no valid row) no bar, axis
\* tick, quartile marker, weighted-average line or price line reaches the
\* renderer with a NaN or infinite coordinate, whatever the toggles are.
C6_DegenerateChartIsFinite ==
  (data = <<>> /\ ~crashed) => \A v \in ChartCoordinates : IsFinite(v)

\* C7: in every render the weightedAverageCost the overlay is drawn from is
\* the weighted average of the record list that render computes maxCost and
\* the bars from, never that of an earlier list.  (Stated for the renders
\* of a non-empty list.)
C7_AverageIsOfCurrentData ==
  (data # <<>> /\ ~crashed) => weightedAverageCost = AverageCost(data)

\* the layout values a render derives from the record list d, with the
\* weighted average w it reads
Layout(d, w) ==
  [cumulativeData |-> CumulativeData(d),
   maxCost |-> MaxCost(d),
   totalProduction |-> TotalProduction(d),
   quartiles |-> Quartiles(d),
   weightedAverageCost |-> w]

\* C8: the price lookup is issued exactly once and never again; after a
\* failure (a rejected request, a response without the price) the price
\* stays unset and the price overlay is not drawn; the completion of the
\* lookup, failed or not, leaves the record list and the derived layout
\* values as they were.
C8_PriceLookup ==
  [][/\ fetchCount' <= 1
     /\ fetchState' # "idle" => fetchCount' = 1
     /\ fetchState' \in {"failed", "noprice"} =>
          /\ ~Truthy(goldPrice')
          /\ GoldPriceLine(showGoldPrice', goldPrice', data') = <<>>
     /\ fetchState \in {"failed", "noprice"} =>
          fetchState' = fetchState /\ goldPrice' = goldPrice
     /\ (fetchState = "pending" /\ fetchState' # "pending") =>
          /\ data' = data
          /\ Layout(data', weightedAverageCost') = Layout(data, weightedAverageCost)]_vars

\* the lookup has failed, a file has been loaded since, the overlay is on
C8_Witness ==
  /\ fetchState = "failed"
  /\ data # <<>>
  /\ showGoldPrice
  /\ ~crashed

\* the records a marker of value v can be placed on
C9_Candidates(v) == {i \in 1..Len(data) : Ge(data[i].cost, v)}
C9_First(v) == CHOOSE i \in C9_Candidates(v) : \A j \in C9_Candidates(v) : i <= j
C9_Markers(key) ==
  {i \in 1..Len(Chart.quartileLines) : Chart.quartileLines[i].key = key}
C9_MarkerOk(key, v) ==
  IF C9_Candidates(v) = {}
    THEN C9_Markers(key) = {}
    ELSE /\ Cardinality(C9_Markers(key)) = 1
         /\ \A i \in C9_Markers(key) :
              Chart.quartileLines[i].x =
                XCoord(Div(CumulativeData(data)[C9_First(v)].cumulativeProduction,
                           TotalProduction(data)))

\* C9: with the quartiles shown, each of the three markers stands at the
\* cumulativeProduction of the first record, in cost order, whose cost is
\* >= the quartile value, and a marker with no such record is not rendered.
C9_QuartileMarkers ==
  (showQuartiles /\ ~crashed) =>
    /\ C9_MarkerOk("q1", Quartiles(data).q1)
    /\ C9_MarkerOk("median", Quartiles(data).median)
    /\ C9_MarkerOk("q3", Quartiles(data).q3)

\* C10: once the reads of two selected files have both completed, the
\* record list is the parse result of the file selected last, whatever the
\* order of the two completions.
C10_LastSelectedFileWins ==
  (selections >= 2 /\ readers = {} /\ ~crashed) => data = ParseCsv(FileText(lastFile))

====
